---- MODULE Spec2Model ----
(***************************************************************************)
(* Model of the DTLN noise-suppression repository:                         *)
(*   src/dtln/dtln.py            audio_generator, DTLN_model (train_model, *)
(*                               stftLayer, ifftLayer, overlapAddLayer)    *)
(*   src/dtln/run_evaluation.py  process_file, process_folder, run_process *)
(*                                                                         *)
(* Validation losses are counted in units of 0.5e-4, so that the default   *)
(* min_delta (1e-4) of ReduceLROnPlateau is MinDelta units.  A loss is a   *)
(* pair <<kind, value>>, kind being "fin", "inf" or "nan" (float values    *)
(* the loss of snr_cost can take).                                         *)
(***************************************************************************)
EXTENDS Integers, Sequences, FiniteSets, TLC

VARIABLES
    \* ---- DTLN_model.train_model / keras fit loop ----
    t_pc,           \* position in train_model / in the epoch of model.fit
    epoch,          \* number of the running (or last run) epoch, 1-based
    plateau,        \* environment: 0 = any loss each epoch, p > 0 = staircase
    weights,        \* parameters of the model: the epoch that produced them
    val_loss,       \* logs["val_loss"] of the running epoch
    ck_best,        \* ModelCheckpoint.best
    ckpt_file,      \* the .h5 file: <<>> or <<epoch of the saved parameters>>
    rl_best,        \* ReduceLROnPlateau.best
    rl_wait,        \* ReduceLROnPlateau.wait
    rl_cooldown,    \* ReduceLROnPlateau.cooldown_counter
    lr,             \* optimizer.lr: <<"pow", k>> = lr0 * factor^k, <<"min", 0>> = min_lr
    es_best,        \* EarlyStopping.best
    es_wait,        \* EarlyStopping.wait
    stop_training,  \* model.stop_training
    \* ---- observers of the run (not program state) ----
    low_loss,       \* lowest validation loss of the epochs evaluated so far
    low_epoch,      \* first epoch that reached low_loss (0: none)
    pl_best,        \* value the plateau is measured against
    pl_streak,      \* consecutive epochs that did not beat pl_best by > min_delta
    since_red,      \* epochs evaluated since the last change of lr (or since start)
    \* ---- DTLN_model: stftLayer, mask, ifftLayer, overlapAddLayer ----
    s_pc,           \* position in the chain of layers
    blockLen,       \* DTLN_model.blockLen
    block_shift,    \* DTLN_model.block_shift
    wave,           \* the input waveform x
    mag,            \* magnitudes of the frames' spectra (squared, see Abs)
    phase,          \* phases of the frames' spectra (as directions, see Angle)
    est_frames,     \* time-domain frames returned by ifftLayer
    out_wave,       \* waveform returned by overlapAddLayer
    \* ---- run_evaluation.py: process_file ----
    pf_pc,          \* position in process_file
    pf_in,          \* audio_file_name
    pf_out,         \* out_file_name
    is_draw_spectrum,
    is_sr_changed,
    len_orig,       \* len_orig
    in_len,         \* number of samples of in_data
    pred_len,       \* number of samples of predicted (the output of the model)
    speech_len,     \* number of samples of predicted_speech
    \* ---- the file system ----
    fs_dirs,        \* directories that exist
    reads,          \* audio files read so far
    out_files,      \* audio files written: set of <<path, samples, rate>>
    pngs,           \* spectrogram images written: set of <<path, suffix>>
    \* ---- run_evaluation.py: run_process, process_folder ----
    r_pc,           \* position in run_process / process_folder
    ckpt_ok,        \* environment: trained_model_path can be loaded
    r_error,        \* the exception that left run_process ("none": none)
    folder_name,    \* folder_name
    new_folder_name,
    tree,           \* environment: what os.walk(folder_name) yields, in order
    walk_i,         \* next entry of the walk
    file_names,     \* file_names
    directories,    \* directories
    new_directories,
    idx,            \* idx of the processing loop (1-based)
    processed,      \* input paths reported "processed successfully!", in order
    failed,         \* input paths whose process_file raised
    \* ---- dtln.py: audio_generator ----
    g_pc,           \* position in __init__ / create_generator
    g_fs,           \* audio_generator.fs
    len_of_samples, \* audio_generator.len_of_samples
    train_flag,     \* audio_generator.train_flag
    g_files,        \* environment: the file pairs, [frames, fs_1, fs_2, ndim_1, ndim_2]
    g_file_names,   \* audio_generator.file_names (indices into g_files)
    total_samples,  \* audio_generator.total_samples
    g_file,         \* position of the loop over file_names (1-based)
    g_speech,       \* number of samples of speech, the clean file just read
    num_samples,    \* num_samples of the file just read
    g_idx,          \* idx of the loop over the chunks
    yielded,        \* the pairs yielded: <<file, idx, len(in_dat), len(tar_dat)>>
    g_error,        \* the exception raised ("none": none)
    \* ---- dtln.py: DTLN_model.snr_cost ----
    l_pc,           \* position in snr_cost
    s_estimate,     \* s_estimate, one row of the last dimension
    s_true,         \* s_true, one row of the last dimension
    snr,            \* snr: <<kind, numerator, denominator>>
    num,            \* tf.math.log(snr) / denom: <<kind, decade>>
    loss,           \* the loss returned: <<kind, value>>
    \* ---- ui.py: UI, InitPage, MainPage ----
    frame,                  \* UI.frame: the page shown ("InitPage", "MainPage")
    model_path,             \* UI.model_path
    selected_model_path,    \* InitPage.selected_model_path
    model_path_field,       \* InitPage.model_path_field: <<state, text>>
    activate_model_button,  \* state of InitPage.activate_model_button
    in_package_path,        \* MainPage.in_package_path
    out_package_path,       \* MainPage.out_package_path
    in_package_path_field,  \* MainPage.in_package_path_field: <<state, text>>
    out_package_path_field, \* MainPage.out_package_path_field: <<state, text>>
    process_button,         \* state of MainPage.process_button
    draw_spectrum_val,      \* value of the IntVar MainPage.draw_spectrum_val
    processable,            \* environment: run_process on valid folders does not raise
    popups,                 \* the message boxes shown, in order
    process_log,            \* one entry per run of process_button_trigger
    clicks                  \* number of events handled

trainVars == <<t_pc, epoch, plateau, weights, val_loss, ck_best, ckpt_file,
               rl_best, rl_wait, rl_cooldown, lr, es_best, es_wait,
               stop_training, low_loss, low_epoch, pl_best, pl_streak, since_red>>

stftVars == <<s_pc, blockLen, block_shift, wave, mag, phase, est_frames, out_wave>>

fileVars == <<pf_pc, pf_in, pf_out, is_draw_spectrum, is_sr_changed, len_orig,
              in_len, pred_len, speech_len>>
diskVars == <<fs_dirs, reads, out_files, pngs>>

folderVars == <<r_pc, ckpt_ok, r_error, folder_name, new_folder_name, tree, walk_i,
                file_names, directories, new_directories, idx, processed, failed>>

genVars == <<g_pc, g_fs, len_of_samples, train_flag, g_files, g_file_names,
             total_samples, g_file, g_speech, num_samples, g_idx, yielded, g_error>>

lossVars == <<l_pc, s_estimate, s_true, snr, num, loss>>

uiVars == <<frame, model_path, selected_model_path, model_path_field,
            activate_model_button, in_package_path, out_package_path,
            in_package_path_field, out_package_path_field, process_button,
            draw_spectrum_val, processable, popups, process_log, clicks>>

vars == <<trainVars, stftVars, fileVars, diskVars, folderVars, genVars, lossVars,
          uiVars>>

\* what the actions of each part leave alone
notTrain == <<stftVars, fileVars, diskVars, folderVars, genVars, lossVars, uiVars>>
notStft == <<trainVars, fileVars, diskVars, folderVars, genVars, lossVars, uiVars>>
notFile == <<trainVars, stftVars, folderVars, genVars, lossVars, uiVars>>
notFolder == <<trainVars, stftVars, genVars, lossVars, uiVars>>
notGen == <<trainVars, stftVars, fileVars, diskVars, folderVars, lossVars, uiVars>>
notLoss == <<trainVars, stftVars, fileVars, diskVars, folderVars, genVars, uiVars>>
notUi == <<trainVars, stftVars, fileVars, diskVars, folderVars, genVars, lossVars>>

----------------------------------------------------------------------------
\* Bounds of the model
MaxLoss == 3            \* free losses are 0..MaxLoss units
MaxPlateau == 11        \* staircase losses descend one unit every 1..MaxPlateau epochs
MaxWave == 7            \* waveforms of the layer chain have 0..MaxWave samples
MaxFileLen == 300       \* audio files hold 0..MaxFileLen samples (after loading)
MaxPairs == 2           \* the training folders hold 0..MaxPairs file pairs
MaxAudio == 4           \* training files hold 0..MaxAudio samples
ChunkLen == 2           \* len_of_samples given to the audio generator
MaxVec == 3             \* the rows given to snr_cost hold 1..MaxVec samples
MaxClicks == 6          \* the window handles at most MaxClicks events

----------------------------------------------------------------------------
\* Program constants
max_epochs == 200       \* DTLN_model.max_epochs
EsPatience == 10        \* EarlyStopping(patience=10)
EsMinDelta == 0         \* EarlyStopping(min_delta=0)
RlPatience == 3         \* ReduceLROnPlateau(patience=3)
RlCooldown == 1         \* ReduceLROnPlateau(cooldown=1)
MinDelta == 2           \* ReduceLROnPlateau default min_delta = 1e-4 = 2 units
FactorInv == 2          \* ReduceLROnPlateau(factor=0.5): lr is divided by 2
LrOverMinLr == 10000000 \* self.lr / min_lr = 1e-3 / 1e-10
FsDefault == 16000      \* DTLN_model.fs
BlockLenDefault == 512  \* DTLN_model.blockLen
BlockShiftDefault == 128 \* DTLN_model.block_shift
LenSamplesDefault == 15 \* DTLN_model.len_samples: seconds of audio in a training chunk
ZeroPad == 384          \* process_file: np.zeros(384)
TrimStart == 384        \* process_file: predicted_speech[384 : 384 + len_orig]
LoadRate == 16000       \* process_file: librosa.core.load(..., sr=16000)
ChangedRate == 8000     \* process_file: librosa.core.load(..., sr=8000)
LossEpsInv == 10000000  \* snr_cost adds 1e-7 = 1 / LossEpsInv to the noise power
RunProcessParams == 5   \* run_process(in_folder, out_folder, trained_model_path,
                        \*             is_draw_spectrum, is_sr_changed)
ProcessArgs == 4        \* arguments process_button_trigger gives to run_process

----------------------------------------------------------------------------
\* Float values and numpy comparisons
Fin(n) == <<"fin", n>>
Inf == <<"inf", 0>>
NaN == <<"nan", 0>>

\* np.less(a, b)
NpLess(a, b) ==
    CASE a[1] = "nan" \/ b[1] = "nan" -> FALSE
      [] a[1] = "inf" -> FALSE
      [] b[1] = "inf" -> TRUE
      [] OTHER -> a[2] < b[2]

\* b - d for a float b and a finite d >= 0
FMinus(b, d) == IF b[1] = "fin" THEN Fin(b[2] - d) ELSE b

RECURSIVE Pow(_, _)
Pow(b, k) == IF k = 0 THEN 1 ELSE b * Pow(b, k - 1)

\* learning rates: <<"pow", k>> is lr0 / FactorInv^k, <<"min", 0>> is min_lr
Lr0 == <<"pow", 0>>
MinLr == <<"min", 0>>
\* old_lr > self.min_lr
LrAboveMin(l) == l[1] = "pow" /\ Pow(FactorInv, l[2]) < LrOverMinLr
\* new_lr = old_lr * self.factor; new_lr = max(new_lr, self.min_lr)
LrReduced(l) ==
    IF Pow(FactorInv, l[2] + 1) <= LrOverMinLr THEN <<"pow", l[2] + 1>> ELSE MinLr
\* a <= b on learning rates
LrLeq(a, b) ==
    CASE a[1] = "min" -> b[1] = "min" \/ Pow(FactorInv, b[2]) <= LrOverMinLr
      [] b[1] = "min" -> Pow(FactorInv, a[2]) >= LrOverMinLr
      [] OTHER -> a[2] >= b[2]

----------------------------------------------------------------------------
\* The callbacks of train_model (keras semantics under the arguments given)

\* ModelCheckpoint(monitor="val_loss", save_best_only=True, mode="auto"):
\* monitor_op = np.less
CkImprovedMut(cur, best) == ~NpLess(best, cur)
CkImproved(cur, best) == NpLess(cur, best)

\* EarlyStopping(monitor="val_loss", min_delta=0, mode="auto", baseline=None):
\* monitor_op(current - min_delta, best) with np.less
EsImproved(cur, best) == NpLess(FMinus(cur, EsMinDelta), best)

\* wait >= patience
EsExpiredMut(w) == w > EsPatience
EsExpired(w) == w >= EsPatience

\* ReduceLROnPlateau(monitor="val_loss", mode auto -> min):
\* monitor_op = lambda a, b: np.less(a, b - min_delta)
RlImprovedMut(cur, best) == NpLess(cur, best)
RlImproved(cur, best) == NpLess(cur, FMinus(best, MinDelta))

----------------------------------------------------------------------------
\* Validation losses the environment can produce in an epoch
FreeLosses == {Fin(n) : n \in 0..MaxLoss} \cup {Inf, NaN}
StairLoss(e, p) == Fin(0 - ((e - 1) \div p))
ValLosses == IF plateau = 0 THEN FreeLosses ELSE {StairLoss(epoch, plateau)}

\* State after DTLN_model(), build_DTLN_model() and compile_model(), at
\* position pc ("idle": train_model is not called), in an environment of ps
TrainNew(pc, ps) ==
    /\ t_pc = pc /\ epoch = 0 /\ plateau \in ps /\ weights = 0
    /\ val_loss = NaN /\ ck_best = Inf /\ ckpt_file = <<>>
    /\ rl_best = Inf /\ rl_wait = 0 /\ rl_cooldown = 0 /\ lr = Lr0
    /\ es_best = Inf /\ es_wait = 0 /\ stop_training = FALSE
    /\ low_loss = Inf /\ low_epoch = 0 /\ pl_best = Inf /\ pl_streak = 0
    /\ since_red = 0

\* train_model up to model.fit: callbacks are created, on_train_begin resets them
TrainBegin ==
    /\ UNCHANGED notTrain
    /\ t_pc = "start"
    /\ t_pc' = "loop"
    /\ ck_best' = Inf
    /\ rl_best' = Inf /\ rl_wait' = 0 /\ rl_cooldown' = 0
    /\ es_best' = Inf /\ es_wait' = 0 /\ stop_training' = FALSE
    /\ UNCHANGED <<epoch, plateau, weights, val_loss, ckpt_file, lr,
                   low_loss, low_epoch, pl_best, pl_streak, since_red>>

\* for epoch in range(epochs): ... if self.stop_training: break
FitContinueMut == epoch < max_epochs
FitContinue == epoch < max_epochs /\ ~stop_training

EpochBegin ==
    /\ UNCHANGED notTrain
    /\ t_pc = "loop" /\ FitContinue
    /\ epoch' = epoch + 1
    /\ t_pc' = "fit"
    /\ UNCHANGED <<plateau, weights, val_loss, ck_best, ckpt_file, rl_best,
                   rl_wait, rl_cooldown, lr, es_best, es_wait, stop_training,
                   low_loss, low_epoch, pl_best, pl_streak, since_red>>

\* the training steps of the epoch: the optimizer changes the parameters
FitOneEpoch ==
    /\ UNCHANGED notTrain
    /\ t_pc = "fit"
    /\ weights' = epoch
    /\ t_pc' = "eval"
    /\ UNCHANGED <<epoch, plateau, val_loss, ck_best, ckpt_file, rl_best,
                   rl_wait, rl_cooldown, lr, es_best, es_wait, stop_training,
                   low_loss, low_epoch, pl_best, pl_streak, since_red>>

\* validation at the end of the epoch: logs["val_loss"]
Evaluate ==
    /\ UNCHANGED notTrain
    /\ t_pc = "eval"
    /\ \E v \in ValLosses :
        /\ val_loss' = v
        /\ IF NpLess(v, low_loss)
             THEN low_loss' = v /\ low_epoch' = epoch
             ELSE UNCHANGED <<low_loss, low_epoch>>
        /\ IF NpLess(v, FMinus(pl_best, MinDelta))
             THEN pl_best' = v /\ pl_streak' = 0
             ELSE pl_best' = pl_best /\ pl_streak' = pl_streak + 1
    /\ since_red' = since_red + 1
    /\ t_pc' = "ckpt"
    /\ UNCHANGED <<epoch, plateau, weights, ck_best, ckpt_file, rl_best,
                   rl_wait, rl_cooldown, lr, es_best, es_wait, stop_training>>

\* ModelCheckpoint.on_epoch_end (save_best_only, save_weights_only)
CheckpointDecision ==
    /\ UNCHANGED notTrain
    /\ t_pc = "ckpt"
    /\ IF CkImproved(val_loss, ck_best)
         THEN ck_best' = val_loss /\ ckpt_file' = <<weights>>
         ELSE UNCHANGED <<ck_best, ckpt_file>>
    /\ t_pc' = "lr"
    /\ UNCHANGED <<epoch, plateau, weights, val_loss, rl_best, rl_wait,
                   rl_cooldown, lr, es_best, es_wait, stop_training,
                   low_loss, low_epoch, pl_best, pl_streak, since_red>>

\* ReduceLROnPlateau.on_epoch_end
LRDecision ==
    /\ UNCHANGED notTrain
    /\ t_pc = "lr"
    /\ LET cd1 == IF rl_cooldown > 0 THEN rl_cooldown - 1 ELSE rl_cooldown
           w1 == IF rl_cooldown > 0 THEN 0 ELSE rl_wait
       IN  IF RlImproved(val_loss, rl_best)
             THEN /\ rl_best' = val_loss /\ rl_wait' = 0 /\ rl_cooldown' = cd1
                  /\ lr' = lr /\ since_red' = since_red
             ELSE IF cd1 > 0
               THEN /\ rl_best' = rl_best /\ rl_wait' = w1 /\ rl_cooldown' = cd1
                    /\ lr' = lr /\ since_red' = since_red
               ELSE IF w1 + 1 >= RlPatience
                 THEN IF LrAboveMin(lr)
                        THEN /\ lr' = LrReduced(lr)
                             /\ rl_cooldown' = RlCooldown /\ rl_wait' = 0
                             /\ rl_best' = rl_best /\ since_red' = 0
                        ELSE /\ rl_wait' = w1 + 1 /\ rl_cooldown' = cd1
                             /\ rl_best' = rl_best /\ lr' = lr
                             /\ since_red' = since_red
                 ELSE /\ rl_wait' = w1 + 1 /\ rl_cooldown' = cd1
                      /\ rl_best' = rl_best /\ lr' = lr /\ since_red' = since_red
    /\ t_pc' = "csv"
    /\ UNCHANGED <<epoch, plateau, weights, val_loss, ck_best, ckpt_file,
                   es_best, es_wait, stop_training, low_loss, low_epoch,
                   pl_best, pl_streak>>

\* CSVLogger.on_epoch_end: one row of the log file
CsvLog ==
    /\ UNCHANGED notTrain
    /\ t_pc = "csv"
    /\ t_pc' = "stop"
    /\ UNCHANGED <<epoch, plateau, weights, val_loss, ck_best, ckpt_file,
                   rl_best, rl_wait, rl_cooldown, lr, es_best, es_wait,
                   stop_training, low_loss, low_epoch, pl_best, pl_streak,
                   since_red>>

\* EarlyStopping.on_epoch_end
StopDecision ==
    /\ UNCHANGED notTrain
    /\ t_pc = "stop"
    /\ IF EsImproved(val_loss, es_best)
         THEN es_best' = val_loss /\ es_wait' = 0 /\ stop_training' = stop_training
         ELSE /\ es_best' = es_best /\ es_wait' = es_wait + 1
              /\ stop_training' = (stop_training \/ EsExpired(es_wait + 1))
    /\ t_pc' = "loop"
    /\ UNCHANGED <<epoch, plateau, weights, val_loss, ck_best, ckpt_file,
                   rl_best, rl_wait, rl_cooldown, lr, low_loss, low_epoch,
                   pl_best, pl_streak, since_red>>

\* model.fit returns; tf.keras.backend.clear_session()
FitEnd ==
    /\ UNCHANGED notTrain
    /\ t_pc = "loop" /\ ~FitContinue
    /\ t_pc' = "done"
    /\ UNCHANGED <<epoch, plateau, weights, val_loss, ck_best, ckpt_file,
                   rl_best, rl_wait, rl_cooldown, lr, es_best, es_wait,
                   stop_training, low_loss, low_epoch, pl_best, pl_streak,
                   since_red>>

NextTrain ==
    \/ TrainBegin \/ EpochBegin \/ FitOneEpoch \/ Evaluate
    \/ CheckpointDecision \/ LRDecision \/ CsvLog \/ StopDecision \/ FitEnd

----------------------------------------------------------------------------
\* Framing, transform and overlap-add (tf.signal as called by the layers).
\* A complex number is a pair <<re, im>> of integers: for frame lengths 2 and
\* 4 every factor of the discrete Fourier transform is 1, -1, i or -i, so the
\* transforms are computed exactly.

\* train_model: len_in_samples =
\*   int(np.fix(self.fs * self.len_samples / self.block_shift) * self.block_shift)
LenInSamplesMut(fs, len_samples, shift) == fs * len_samples
LenInSamples(fs, len_samples, shift) == ((fs * len_samples) \div shift) * shift

\* tf.signal.frame(x, frame_length, frame_step), pad_end=False: number of frames
NumFrames(n, len, step) == IF n < len THEN 0 ELSE (n - len) \div step + 1

\* tf.signal.overlap_and_add(frames, frame_step): length of the result
OverlapAddLen(nf, len, step) == (nf - 1) * step + len

Frame(x, len, step) ==
    [f \in 1..NumFrames(Len(x), len, step) |->
        SubSeq(x, (f - 1) * step + 1, (f - 1) * step + len)]

RECURSIVE SumTo(_, _)
\* sum of f[1..n]
SumTo(f, n) == IF n = 0 THEN 0 ELSE f[n] + SumTo(f, n - 1)

\* exp(-2 pi i m / len) for len in {1, 2, 4}
Unit(m, len) ==
    LET q == (m * (4 \div len)) % 4
    IN  CASE q = 0 -> <<1, 0>> [] q = 1 -> <<0, -1>>
          [] q = 2 -> <<-1, 0>> [] OTHER -> <<0, 1>>
CMul(a, b) == <<a[1] * b[1] - a[2] * b[2], a[1] * b[2] + a[2] * b[1]>>
Conj(a) == <<a[1], 0 - a[2]>>

\* tf.signal.rfft(frame): bins 0..len/2 of the transform (1-based sequence)
Rfft(fr) ==
    LET len == Len(fr)
    IN  [k \in 1..(len \div 2 + 1) |->
          <<SumTo([n \in 1..len |-> fr[n] * Unit((k - 1) * (n - 1), len)[1]], len),
            SumTo([n \in 1..len |-> fr[n] * Unit((k - 1) * (n - 1), len)[2]], len)>>]

\* tf.signal.irfft(spectrum): fft_length = 2 * (bins - 1); the imaginary parts
\* of the first and the last bin are ignored
IrfftMut(sp) ==
    LET len == 2 * (Len(sp) - 1)
    IN  [n \in 1..len |->
          (sp[1][1]
            + SumTo([k \in 1..(Len(sp) - 2) |->
                  2 * CMul(sp[k + 1], Unit(k * (n - 1), len))[1]], Len(sp) - 2)
            + sp[Len(sp)][1] * Unit((len \div 2) * (n - 1), len)[1]) \div len]
Irfft(sp) ==
    LET len == 2 * (Len(sp) - 1)
    IN  [n \in 1..len |->
          (sp[1][1]
            + SumTo([k \in 1..(Len(sp) - 2) |->
                  2 * CMul(sp[k + 1], Conj(Unit(k * (n - 1), len)))[1]], Len(sp) - 2)
            + sp[Len(sp)][1] * Unit((len \div 2) * (n - 1), len)[1]) \div len]

RECURSIVE Gcd(_, _)
Gcd(a, b) == IF b = 0 THEN a ELSE Gcd(b, a % b)
AbsInt(a) == IF a < 0 THEN 0 - a ELSE a
\* integer square root of a perfect square
ISqrt(n) == CHOOSE r \in 0..n : r * r = n

\* tf.abs(z): the magnitude, a real >= 0, kept as its square
Abs(z) == z[1] * z[1] + z[2] * z[2]
\* tf.math.angle(z): the phase, kept as the shortest integer vector of that
\* direction; angle(0) = 0
Angle(z) ==
    LET g == Gcd(AbsInt(z[1]), AbsInt(z[2]))
    IN  IF g = 0 THEN <<1, 0>> ELSE <<z[1] \div g, z[2] \div g>>
\* mag * exp(1j * phase)
FromPolar(m, ph) ==
    LET r == ISqrt(m \div (ph[1] * ph[1] + ph[2] * ph[2]))
    IN  <<r * ph[1], r * ph[2]>>

\* tf.signal.overlap_and_add(frames, step): sample i (1-based) is the sum of the
\* samples of the frames that cover it
OverlapAdd(frs, len, step) ==
    [i \in 1..OverlapAddLen(Len(frs), len, step) |->
        SumTo([f \in 1..Len(frs) |->
                 IF (f - 1) * step < i /\ i <= (f - 1) * step + len
                   THEN frs[f][i - (f - 1) * step] ELSE 0], Len(frs))]

BlockLens == {2, 4}
Samples == {-1, 0, 1}
RECURSIVE Waves(_)
\* all waveforms of exactly n samples
Waves(n) ==
    IF n = 0 THEN {<<>>}
    ELSE {Append(w, v) : w \in Waves(n - 1), v \in Samples}

\* the layers of a model with the default frame length and hop, not called
StftNew(pc) ==
    /\ s_pc = pc /\ blockLen = BlockLenDefault
    /\ block_shift = BlockShiftDefault /\ wave = <<>>
    /\ mag = <<>> /\ phase = <<>> /\ est_frames = <<>> /\ out_wave = <<>>

\* a DTLN_model with some frame length and hop, and a waveform to transform
StftCall(pc) ==
    /\ s_pc = pc
    /\ blockLen \in BlockLens
    /\ block_shift \in 1..blockLen
    /\ \E n \in 0..MaxWave : wave \in Waves(n)
    /\ mag = <<>> /\ phase = <<>> /\ est_frames = <<>> /\ out_wave = <<>>

\* DTLN_model.stftLayer
StftLayer ==
    /\ UNCHANGED notStft
    /\ s_pc = "stft"
    /\ LET frames == Frame(wave, blockLen, block_shift)
           stft_dat == [f \in 1..Len(frames) |-> Rfft(frames[f])]
       IN  /\ mag' = [f \in 1..Len(frames) |->
                        [k \in 1..Len(stft_dat[f]) |-> Abs(stft_dat[f][k])]]
           /\ phase' = [f \in 1..Len(frames) |->
                        [k \in 1..Len(stft_dat[f]) |-> Angle(stft_dat[f][k])]]
    /\ s_pc' = "mask"
    /\ UNCHANGED <<blockLen, block_shift, wave, est_frames, out_wave>>

\* Multiply()([mag, mask]) with a mask that is 1 everywhere
MaskOnes ==
    /\ UNCHANGED notStft
    /\ s_pc = "mask"
    /\ mag' = [f \in 1..Len(mag) |-> [k \in 1..Len(mag[f]) |-> mag[f][k] * 1 * 1]]
    /\ s_pc' = "ifft"
    /\ UNCHANGED <<blockLen, block_shift, wave, phase, est_frames, out_wave>>

\* DTLN_model.ifftLayer
IfftLayer ==
    /\ UNCHANGED notStft
    /\ s_pc = "ifft"
    /\ est_frames' = [f \in 1..Len(mag) |->
          Irfft([k \in 1..Len(mag[f]) |-> FromPolar(mag[f][k], phase[f][k])])]
    /\ s_pc' = "ola"
    /\ UNCHANGED <<blockLen, block_shift, wave, mag, phase, out_wave>>

\* DTLN_model.overlapAddLayer
OverlapAddLayer ==
    /\ UNCHANGED notStft
    /\ s_pc = "ola"
    /\ out_wave' = OverlapAdd(est_frames, blockLen, block_shift)
    /\ s_pc' = "done"
    /\ UNCHANGED <<blockLen, block_shift, wave, mag, phase, est_frames>>

NextStft == StftLayer \/ MaskOnes \/ IfftLayer \/ OverlapAddLayer

----------------------------------------------------------------------------
Range(q) == {q[i] : i \in 1..Len(q)}

\* Paths are sequences of characters
Slash == <<"/">>
WavExt == <<".", "w", "a", "v">>
\* os.path.join(a, b) for a relative b
Join(a, b) == a \o Slash \o b

\* s.endswith(suffix)
EndsWith(s, suf) ==
    Len(s) >= Len(suf) /\ SubSeq(s, Len(s) - Len(suf) + 1, Len(s)) = suf

RECURSIVE LastSlash(_, _)
\* position of the last "/" in s[1..n] (0: none)
LastSlash(s, n) ==
    IF n = 0 THEN 0 ELSE IF s[n] = "/" THEN n ELSE LastSlash(s, n - 1)
\* directory part of a path
DirName(path) == SubSeq(path, 1, LastSlash(path, Len(path)) - 1)

\* os.makedirs(path): the directory and every missing parent
MakeDirs(dirs, path) ==
    dirs \cup {path}
         \cup {SubSeq(path, 1, i - 1) : i \in {j \in 2..Len(path) : path[j] = "/"}}

\* a[lo:hi] of a sequence of n samples, 0 <= lo <= hi: number of samples
SliceLenMut(n, lo, hi) == IF n - lo - lo > 0 THEN n - lo - lo ELSE 0
SliceLen(n, lo, hi) ==
    LET top == IF hi < n THEN hi ELSE n
        bot == IF lo < n THEN lo ELSE n
    IN  top - bot

\* model.predict_on_batch: stftLayer cuts the frames, every layer up to the
\* decoder keeps their number, overlapAddLayer joins frames of blockLen samples
PredictLen(n) ==
    OverlapAddLen(NumFrames(n, blockLen, block_shift), blockLen, block_shift)

\* librosa resampling from rate r1 to rate r2: ceil(n * r2 / r1) samples
ResampledLen(n, r1, r2) == (n * r2 + r1 - 1) \div r1

\* sf.write(path, data, rate): the file is created or replaced
Written(files, path, n, rate) ==
    {f \in files : f[1] # path} \cup {<<path, n, rate>>}

\* process_file is not called
FileNew(pc) ==
    /\ pf_pc = pc /\ pf_in = <<>> /\ pf_out = <<>>
    /\ len_orig = 0 /\ in_len = 0 /\ pred_len = 0 /\ speech_len = 0

\* librosa.core.load(audio_file_name, sr=16000, mono=True); len_orig = len(in_data)
PF_Load(lens) ==
    /\ UNCHANGED notFile
    /\ pf_pc = "load"
    /\ reads' = reads \cup {pf_in}
    /\ \/ \E n \in lens :
            /\ len_orig' = n /\ in_len' = n
            /\ pf_pc' = "pad"
       \/ /\ pf_pc' = "failed"
          /\ UNCHANGED <<len_orig, in_len>>
    /\ UNCHANGED <<pf_in, pf_out, is_draw_spectrum, is_sr_changed, pred_len,
                   speech_len, fs_dirs, out_files, pngs>>

\* in_data = np.concatenate((zero_pad, in_data, zero_pad))
PF_Pad ==
    /\ UNCHANGED notFile
    /\ pf_pc = "pad"
    /\ in_len' = ZeroPad + in_len + ZeroPad
    /\ pf_pc' = "predict"
    /\ UNCHANGED <<pf_in, pf_out, is_draw_spectrum, is_sr_changed, len_orig,
                   pred_len, speech_len, diskVars>>

\* predicted = model.predict_on_batch(...)
PF_Predict ==
    /\ UNCHANGED notFile
    /\ pf_pc = "predict"
    /\ pred_len' = PredictLen(in_len)
    /\ pf_pc' = "trim"
    /\ UNCHANGED <<pf_in, pf_out, is_draw_spectrum, is_sr_changed, len_orig,
                   in_len, speech_len, diskVars>>

\* predicted_speech = predicted_speech[384 : 384 + len_orig]
PF_Trim ==
    /\ UNCHANGED notFile
    /\ pf_pc = "trim"
    /\ speech_len' = SliceLen(pred_len, TrimStart, TrimStart + len_orig)
    /\ pf_pc' = "write"
    /\ UNCHANGED <<pf_in, pf_out, is_draw_spectrum, is_sr_changed, len_orig,
                   in_len, pred_len, diskVars>>

\* sf.write(out_file_name, predicted_speech, fs)
PF_Write ==
    /\ UNCHANGED notFile
    /\ pf_pc = "write"
    /\ IF DirName(pf_out) \in fs_dirs
         THEN /\ out_files' = Written(out_files, pf_out, speech_len, LoadRate)
              /\ pf_pc' = "written"
         ELSE /\ out_files' = out_files
              /\ pf_pc' = "failed"
    /\ UNCHANGED <<pf_in, pf_out, is_draw_spectrum, is_sr_changed, len_orig,
                   in_len, pred_len, speech_len, fs_dirs, reads, pngs>>

\* if is_sr_changed: load the written file at 8000 Hz and write it again
PF_Resample ==
    /\ UNCHANGED notFile
    /\ pf_pc = "written"
    /\ IF is_sr_changed
         THEN /\ reads' = reads \cup {pf_out}
              /\ out_files' = Written(out_files, pf_out,
                    ResampledLen(speech_len, LoadRate, ChangedRate), ChangedRate)
         ELSE UNCHANGED <<reads, out_files>>
    /\ pf_pc' = "spectrum"
    /\ UNCHANGED <<pf_in, pf_out, is_draw_spectrum, is_sr_changed, len_orig,
                   in_len, pred_len, speech_len, fs_dirs, pngs>>

\* if is_draw_spectrum: convert_audio_to_spectogram of the input and the output
PF_Spectrum ==
    /\ UNCHANGED notFile
    /\ pf_pc = "spectrum"
    /\ IF is_draw_spectrum
         THEN /\ reads' = reads \cup {pf_in, pf_out}
              /\ pngs' = pngs \cup {<<pf_out, "_before.png">>, <<pf_out, "_after.png">>}
         ELSE UNCHANGED <<reads, pngs>>
    /\ pf_pc' = "done"
    /\ UNCHANGED <<pf_in, pf_out, is_draw_spectrum, is_sr_changed, len_orig,
                   in_len, pred_len, speech_len, fs_dirs, out_files>>

ProcessFileSteps == PF_Pad \/ PF_Predict \/ PF_Trim \/ PF_Write \/ PF_Resample \/ PF_Spectrum

\* one call of process_file with a model of the default frame length and hop
FileCall(pc) ==
    /\ pf_pc = pc
    /\ pf_in = <<"a">> \o Slash \o <<"x">> \o WavExt
    /\ pf_out = <<"o">> \o Slash \o <<"x">> \o WavExt
    /\ is_draw_spectrum \in BOOLEAN /\ is_sr_changed \in BOOLEAN
    /\ len_orig = 0 /\ in_len = 0 /\ pred_len = 0 /\ speech_len = 0
    /\ fs_dirs = {<<"a">>, <<"o">>} /\ reads = {} /\ out_files = {} /\ pngs = {}

NextFile == PF_Load(0..MaxFileLen) \/ ProcessFileSteps

----------------------------------------------------------------------------
\* run_process and process_folder

RECURSIVE Replace(_, _, _)
\* s.replace(old, new) for a non-empty old: every occurrence, left to right
Replace(s, old, new) ==
    IF Len(s) < Len(old) THEN s
    ELSE IF SubSeq(s, 1, Len(old)) = old
      THEN new \o Replace(SubSeq(s, Len(old) + 1, Len(s)), old, new)
      ELSE <<s[1]>> \o Replace(Tail(s), old, new)

\* the .wav files among the files of one directory
RECURSIVE WavFiles(_)
WavFiles(files) ==
    IF files = <<>> THEN <<>>
    ELSE IF EndsWith(Head(files), WavExt)
      THEN <<Head(files)>> \o WavFiles(Tail(files))
      ELSE WavFiles(Tail(files))

\* the input trees: folder_name with some of the sub-directories a, a/a, b;
\* a directory holds x.wav and y.txt, or y.txt alone
FolderNames == {<<"a">>, <<"i", "n">>}
DirOrder == << <<>>, <<"/", "a">>, <<"/", "a", "/", "a">>, <<"/", "b">> >>
WavName == <<"x">> \o WavExt
TxtName == <<"y", ".", "t", "x", "t">>
RECURSIVE WalkOf(_, _, _, _)
\* the entries os.walk yields (top-down) for the directories keep, of which
\* those in wavs hold a .wav file
WalkOf(top, keep, wavs, i) ==
    IF i > Len(DirOrder) THEN <<>>
    ELSE IF i \in keep
      THEN << <<top \o DirOrder[i],
                IF i \in wavs THEN <<WavName, TxtName>> ELSE <<TxtName>> >> >>
           \o WalkOf(top, keep, wavs, i + 1)
      ELSE WalkOf(top, keep, wavs, i + 1)

\* run_process is not called
FolderNew(pc) ==
    /\ r_pc = pc /\ ckpt_ok = TRUE /\ r_error = "none"
    /\ folder_name = <<>> /\ new_folder_name = <<>> /\ tree = <<>> /\ walk_i = 1
    /\ file_names = <<>> /\ directories = <<>> /\ new_directories = <<>>
    /\ idx = 1 /\ processed = <<>> /\ failed = {}

\* a call run_process(in_folder, out_folder, trained_model_path, ...)
FolderCall(pc) ==
    /\ r_pc = pc /\ ckpt_ok \in BOOLEAN /\ r_error = "none"
    /\ folder_name \in FolderNames /\ new_folder_name = <<"o">>
    /\ \E keep \in SUBSET (1..Len(DirOrder)) :
         /\ 1 \in keep /\ (3 \in keep => 2 \in keep)
         /\ \E wavs \in SUBSET keep :
              /\ tree = WalkOf(folder_name, keep, wavs, 1)
              /\ fs_dirs = {folder_name \o DirOrder[i] : i \in keep}
    /\ walk_i = 1
    /\ file_names = <<>> /\ directories = <<>> /\ new_directories = <<>>
    /\ idx = 1 /\ processed = <<>> /\ failed = {}
    /\ is_draw_spectrum \in BOOLEAN /\ is_sr_changed \in BOOLEAN
    /\ reads = {} /\ out_files = {} /\ pngs = {}

\* model_obj = DTLN_model(); model_obj.build_DTLN_model()
R_Build ==
    /\ UNCHANGED notFolder
    /\ r_pc = "start"
    /\ r_pc' = "load"
    /\ UNCHANGED <<ckpt_ok, r_error, folder_name, new_folder_name, tree, walk_i,
                   file_names, directories, new_directories, idx, processed,
                   failed, fileVars, diskVars>>

\* what follows model_obj.model.load_weights(trained_model_path)
AfterLoadMut(ok) == "walk"
AfterLoad(ok) == IF ok THEN "walk" ELSE "error"

\* model_obj.model.load_weights(trained_model_path)
R_LoadWeights ==
    /\ UNCHANGED notFolder
    /\ r_pc = "load"
    /\ r_pc' = AfterLoad(ckpt_ok)
    /\ r_error' = IF ckpt_ok THEN r_error ELSE "load_weights"
    /\ UNCHANGED <<ckpt_ok, folder_name, new_folder_name, tree, walk_i,
                   file_names, directories, new_directories, idx, processed,
                   failed, fileVars, diskVars>>

\* process_folder: one (root, dirs, files) of os.walk(folder_name)
PFo_WalkDir ==
    /\ UNCHANGED notFolder
    /\ r_pc = "walk" /\ walk_i <= Len(tree)
    /\ LET root == tree[walk_i][1]
           found == WavFiles(tree[walk_i][2])
           new_dir == Replace(root, folder_name, new_folder_name)
       IN  /\ file_names' = file_names \o found
           /\ directories' = directories \o [k \in 1..Len(found) |-> root]
           /\ new_directories' = new_directories \o [k \in 1..Len(found) |-> new_dir]
           /\ fs_dirs' = IF found # <<>> /\ new_dir \notin fs_dirs
                           THEN MakeDirs(fs_dirs, new_dir) ELSE fs_dirs
    /\ walk_i' = walk_i + 1
    /\ UNCHANGED <<r_pc, ckpt_ok, r_error, folder_name, new_folder_name, tree,
                   idx, processed, failed, fileVars, reads, out_files, pngs>>

\* the walk is over: for idx in range(len(file_names))
PFo_WalkEnd ==
    /\ UNCHANGED notFolder
    /\ r_pc = "walk" /\ walk_i > Len(tree)
    /\ r_pc' = "loop" /\ idx' = 1
    /\ UNCHANGED <<ckpt_ok, r_error, folder_name, new_folder_name, tree, walk_i,
                   file_names, directories, new_directories, processed, failed,
                   fileVars, diskVars>>

\* process_file(model, join(directories[idx], ...), join(new_directories[idx], ...))
PFo_Call ==
    /\ UNCHANGED notFolder
    /\ r_pc = "loop" /\ idx <= Len(file_names)
    /\ pf_in' = Join(directories[idx], file_names[idx])
    /\ pf_out' = Join(new_directories[idx], file_names[idx])
    /\ pf_pc' = "load" /\ r_pc' = "file"
    /\ len_orig' = 0 /\ in_len' = 0 /\ pred_len' = 0 /\ speech_len' = 0
    /\ UNCHANGED <<ckpt_ok, r_error, folder_name, new_folder_name, tree, walk_i,
                   file_names, directories, new_directories, idx, processed,
                   failed, is_draw_spectrum, is_sr_changed, diskVars>>

\* process_file returned: print(file_names[idx] + " processed successfully!")
PFo_Return ==
    /\ UNCHANGED notFolder
    /\ r_pc = "file" /\ pf_pc = "done"
    /\ processed' = Append(processed, pf_in)
    /\ idx' = idx + 1
    /\ pf_pc' = "idle" /\ r_pc' = "loop"
    /\ UNCHANGED <<ckpt_ok, r_error, folder_name, new_folder_name, tree, walk_i,
                   file_names, directories, new_directories, failed, pf_in,
                   pf_out, is_draw_spectrum, is_sr_changed, len_orig, in_len,
                   pred_len, speech_len, diskVars>>

\* process_file raised: nothing catches it in process_folder or run_process
PFo_Raise ==
    /\ UNCHANGED notFolder
    /\ r_pc = "file" /\ pf_pc = "failed"
    /\ failed' = failed \cup {pf_in}
    /\ r_pc' = "error" /\ r_error' = "process_file"
    /\ pf_pc' = "idle"
    /\ UNCHANGED <<ckpt_ok, folder_name, new_folder_name, tree, walk_i,
                   file_names, directories, new_directories, idx, processed,
                   pf_in, pf_out, is_draw_spectrum, is_sr_changed, len_orig,
                   in_len, pred_len, speech_len, diskVars>>

\* the loop is over: process_folder and run_process return
PFo_End ==
    /\ UNCHANGED notFolder
    /\ r_pc = "loop" /\ idx > Len(file_names)
    /\ r_pc' = "done"
    /\ UNCHANGED <<ckpt_ok, r_error, folder_name, new_folder_name, tree, walk_i,
                   file_names, directories, new_directories, idx, processed,
                   failed, fileVars, diskVars>>

\* lengths of the audio files of a folder
FolderLens == {0, MaxFileLen}

NextFolder ==
    \/ R_Build \/ R_LoadWeights \/ PFo_WalkDir \/ PFo_WalkEnd \/ PFo_Call
    \/ PFo_Return \/ PFo_Raise \/ PFo_End
    \/ PF_Load(FolderLens) \/ ProcessFileSteps

----------------------------------------------------------------------------
\* audio_generator

\* sampling rates and numbers of dimensions a file pair can have
PairKinds ==
    {<<FsDefault, FsDefault, 1, 1>>, <<ChangedRate, FsDefault, 1, 1>>,
     <<FsDefault, ChangedRate, 1, 1>>, <<FsDefault, FsDefault, 2, 1>>,
     <<FsDefault, FsDefault, 1, 2>>}
Pairs ==
    {[frames |-> n, fs_1 |-> k[1], fs_2 |-> k[2], ndim_1 |-> k[3], ndim_2 |-> k[4]] :
        n \in 0..MaxAudio, k \in PairKinds}

RECURSIVE SumFrames(_, _, _)
\* count_samples: the sum over the files of int(np.fix(frame_count / len_of_samples))
SumFrames(files, names, len) ==
    IF names = <<>> THEN 0
    ELSE files[Head(names)].frames \div len + SumFrames(files, Tail(names), len)

\* the orders shuffle(self.file_names) can leave
Shuffles(names) ==
    {q \in [1..Len(names) -> Range(names)] : Range(q) = Range(names)}

\* fs_1 != self.fs or fs_2 != self.fs
RatesDifferMut(f, fs) == f.fs_1 # fs
RatesDiffer(f, fs) == f.fs_1 # fs \/ f.fs_2 # fs
\* noisy.ndim != 1 or speech.ndim != 1
NotMono(f) == f.ndim_1 # 1 \/ f.ndim_2 # 1

\* no audio generator
GenNew(pc) ==
    /\ g_pc = pc /\ g_fs = FsDefault /\ len_of_samples = ChunkLen
    /\ train_flag = FALSE /\ g_files = <<>> /\ g_file_names = <<>>
    /\ total_samples = 0 /\ g_file = 1 /\ g_speech = 0 /\ num_samples = 0
    /\ g_idx = 0 /\ yielded = <<>> /\ g_error = "none"

\* audio_generator(path_to_input, path_to_s1, len_of_samples, fs, train_flag)
\* is about to be constructed on folders that hold some file pairs
GenCall(pc) ==
    /\ g_pc = pc /\ g_fs = FsDefault /\ len_of_samples = ChunkLen
    /\ train_flag \in BOOLEAN
    /\ \E n \in 0..MaxPairs : g_files \in [1..n -> Pairs]
    /\ g_file_names = <<>>
    /\ total_samples = 0 /\ g_file = 1 /\ g_speech = 0 /\ num_samples = 0
    /\ g_idx = 0 /\ yielded = <<>> /\ g_error = "none"

\* __init__: count_samples() and create_tf_data_obj()
AG_Construct ==
    /\ UNCHANGED notGen
    /\ g_pc = "new"
    /\ g_file_names' = [i \in 1..Len(g_files) |-> i]
    /\ total_samples' = SumFrames(g_files, [i \in 1..Len(g_files) |-> i], len_of_samples)
    /\ g_pc' = "constructed"
    /\ UNCHANGED <<g_fs, len_of_samples, train_flag, g_files, g_file, g_speech,
                   num_samples, g_idx, yielded, g_error>>

\* create_generator is started by the data set: if self.train_flag: shuffle
AG_Start ==
    /\ UNCHANGED notGen
    /\ g_pc = "constructed"
    /\ IF train_flag
         THEN g_file_names' \in Shuffles(g_file_names)
         ELSE g_file_names' = g_file_names
    /\ g_file' = 1
    /\ g_pc' = "file"
    /\ UNCHANGED <<g_fs, len_of_samples, train_flag, g_files, total_samples,
                   g_speech, num_samples, g_idx, yielded, g_error>>

\* for file in self.file_names: sf.read both files, check them, count the chunks
AG_ReadPair ==
    /\ UNCHANGED notGen
    /\ g_pc = "file" /\ g_file <= Len(g_file_names)
    /\ LET f == g_files[g_file_names[g_file]]
       IN  IF RatesDiffer(f, g_fs) \/ NotMono(f)
             THEN /\ g_error' = "ValueError" /\ g_pc' = "raised"
                  /\ UNCHANGED <<g_speech, num_samples, g_idx>>
             ELSE /\ \E n \in 0..MaxAudio : g_speech' = n
                  /\ num_samples' = f.frames \div len_of_samples
                  /\ g_idx' = 0
                  /\ g_pc' = "chunk"
                  /\ g_error' = g_error
    /\ UNCHANGED <<g_fs, len_of_samples, train_flag, g_files, g_file_names,
                   total_samples, g_file, yielded>>

\* for idx in range(num_samples): yield in_dat, tar_dat
AG_Yield ==
    /\ UNCHANGED notGen
    /\ g_pc = "chunk" /\ g_idx < num_samples
    /\ yielded' = Append(yielded,
          <<g_file_names[g_file], g_idx,
            SliceLen(g_files[g_file_names[g_file]].frames,
                     g_idx * len_of_samples, (g_idx + 1) * len_of_samples),
            SliceLen(g_speech, g_idx * len_of_samples, (g_idx + 1) * len_of_samples)>>)
    /\ g_idx' = g_idx + 1
    /\ UNCHANGED <<g_pc, g_fs, len_of_samples, train_flag, g_files, g_file_names,
                   total_samples, g_file, g_speech, num_samples, g_error>>

\* the chunks of the file are done: next file
AG_NextFile ==
    /\ UNCHANGED notGen
    /\ g_pc = "chunk" /\ g_idx >= num_samples
    /\ g_file' = g_file + 1
    /\ g_pc' = "file"
    /\ UNCHANGED <<g_fs, len_of_samples, train_flag, g_files, g_file_names,
                   total_samples, g_speech, num_samples, g_idx, yielded, g_error>>

\* the files are done: the generator returns
AG_Exhausted ==
    /\ UNCHANGED notGen
    /\ g_pc = "file" /\ g_file > Len(g_file_names)
    /\ g_pc' = "exhausted"
    /\ UNCHANGED <<g_fs, len_of_samples, train_flag, g_files, g_file_names,
                   total_samples, g_file, g_speech, num_samples, g_idx, yielded,
                   g_error>>

NextGen ==
    AG_Construct \/ AG_Start \/ AG_ReadPair \/ AG_Yield \/ AG_NextFile \/ AG_Exhausted

----------------------------------------------------------------------------
\* DTLN_model.snr_cost.  The samples are integers, the means are kept as exact
\* fractions; a float that is not finite is <<"inf", 0>>, <<"ninf", 0>> or
\* <<"nan", 0>>.  The logarithm of a positive snr is kept to the decade:
\* <<"fin", k>> with 10^k <= snr < 10^(k+1).

RECURSIVE SumSq(_, _)
\* n * tf.reduce_mean(tf.math.square(v)): the sum of the squares of v[1..n]
SumSq(v, n) == IF n = 0 THEN 0 ELSE v[n] * v[n] + SumSq(v, n - 1)

\* s_true - s_estimate
Diff(a, b) == [i \in 1..Len(a) |-> a[i] - b[i]]

\* mean(s_true^2) / (mean((s_true - s_estimate)^2) + 1e-7), both means over the
\* same n samples:  (St / n) / (Sd / n + 1 / E)  =  St * E / (Sd * E + n)
Snr(t, e) ==
    LET p == SumSq(t, Len(t)) * LossEpsInv
        q == SumSq(Diff(t, e), Len(t)) * LossEpsInv + Len(t)
    IN  IF q = 0 THEN (IF p = 0 THEN <<"nan", 0, 0>> ELSE <<"inf", p, 0>>)
        ELSE <<"fin", p, q>>

\* 10^k <= p / q, for p, q > 0
AtLeastPow10(p, q, k) ==
    IF k >= 0 THEN q <= p \div Pow(10, k)
    ELSE (q + Pow(10, 0 - k) - 1) \div Pow(10, 0 - k) <= p

\* tf.math.log(snr) / tf.math.log(10): log of 0 is -inf, of a negative number
\* or of nan is nan, of +inf is +inf
Log10(x) ==
    IF x[1] = "nan" THEN <<"nan", 0>>
    ELSE IF x[1] = "inf" THEN <<"inf", 0>>
    ELSE IF x[2] = 0 THEN <<"ninf", 0>>
    ELSE IF x[2] < 0 THEN <<"nan", 0>>
    ELSE <<"fin", CHOOSE k \in -8..8 : /\ AtLeastPow10(x[2], x[3], k)
                                       /\ ~AtLeastPow10(x[2], x[3], k + 1)>>

\* -10 * x
Neg10(x) ==
    IF x[1] = "fin" THEN <<"fin", (0 - 10) * x[2]>>
    ELSE IF x[1] = "inf" THEN <<"ninf", 0>>
    ELSE IF x[1] = "ninf" THEN <<"inf", 0>>
    ELSE x

\* snr_cost is not running
LossNew(pc) ==
    /\ l_pc = pc /\ s_estimate = <<>> /\ s_true = <<>>
    /\ snr = <<>> /\ num = <<>> /\ loss = <<>>

\* snr_cost(s_estimate, s_true) is called on two rows of the same length
LossCall(pc) ==
    /\ l_pc = pc
    /\ \E n \in 1..MaxVec : s_true \in Waves(n) /\ s_estimate \in Waves(n)
    /\ snr = <<>> /\ num = <<>> /\ loss = <<>>

\* snr = reduce_mean(square(s_true)) / (reduce_mean(square(s_true - s_estimate)) + 1e-7)
SC_Snr ==
    /\ UNCHANGED notLoss
    /\ l_pc = "snr"
    /\ snr' = Snr(s_true, s_estimate)
    /\ l_pc' = "log"
    /\ UNCHANGED <<s_estimate, s_true, num, loss>>

\* num = tf.math.log(snr); denom = tf.math.log(10); num / denom
SC_Log ==
    /\ UNCHANGED notLoss
    /\ l_pc = "log"
    /\ num' = Log10(snr)
    /\ l_pc' = "loss"
    /\ UNCHANGED <<s_estimate, s_true, snr, loss>>

\* loss = -10 * (num / denom); return loss
SC_Loss ==
    /\ UNCHANGED notLoss
    /\ l_pc = "loss"
    /\ loss' = Neg10(num)
    /\ l_pc' = "done"
    /\ UNCHANGED <<s_estimate, s_true, snr, num>>

NextLoss == SC_Snr \/ SC_Log \/ SC_Loss

----------------------------------------------------------------------------
\* ui.py.  A Python value is <<"none", <<>>>> (None) or <<"str", characters>>.

None == <<"none", <<>> >>
Str(chars) == <<"str", chars>>
\* truth value of a Python value: None and "" are false
Truthy(v) == v[1] = "str" /\ v[2] # <<>>

RECURSIVE LStrip(_)
LStrip(q) == IF q # <<>> /\ Head(q) = " " THEN LStrip(Tail(q)) ELSE q
RECURSIVE RStrip(_)
RStrip(q) ==
    IF q # <<>> /\ q[Len(q)] = " " THEN RStrip(SubSeq(q, 1, Len(q) - 1)) ELSE q
\* str.strip()
Strip(q) == RStrip(LStrip(q))

\* what fd.askopenfilename(filetypes=[("Trained model", "*.h5")]) can return:
\* "" when the dialog is cancelled, else the path of the file chosen
ModelFiles == {<<>>, <<"m", ".", "h", "5">>, <<" ", "n", ".", "h", "5">>}
\* what fd.askdirectory() can return
Folders == {<<>>, <<"i">>, <<"o">>}

\* the placeholders the entries are created with
ModelHint == Str(<<"Model path in .h5 format">>)
InHint == Str(<<"Catalog path with .wav files">>)
OutHint == Str(<<"Destination catalog path">>)

\* a call binds its positional arguments to parameters that have no defaults
CallBinds(given, params) == given = params

\* no window
UiNew(pc) ==
    /\ frame = pc /\ model_path = None /\ selected_model_path = None
    /\ model_path_field = <<"disabled", ModelHint>>
    /\ activate_model_button = "disabled"
    /\ in_package_path = None /\ out_package_path = None
    /\ in_package_path_field = <<"disabled", InHint>>
    /\ out_package_path_field = <<"disabled", OutHint>>
    /\ process_button = "normal" /\ draw_spectrum_val = 0
    /\ processable = TRUE /\ popups = <<>> /\ process_log = <<>> /\ clicks = 0

\* UI.__init__: switch_frame(InitPage), and InitPage.show
UiStart(pc) ==
    /\ frame = pc /\ model_path = None /\ selected_model_path = None
    /\ model_path_field = <<"disabled", ModelHint>>
    /\ activate_model_button = "disabled"
    /\ in_package_path = None /\ out_package_path = None
    /\ in_package_path_field = <<"disabled", InHint>>
    /\ out_package_path_field = <<"disabled", OutHint>>
    /\ process_button = "normal" /\ draw_spectrum_val = 0
    /\ processable \in BOOLEAN /\ popups = <<>> /\ process_log = <<>> /\ clicks = 0

\* the event loop takes one event
Event ==
    /\ clicks < MaxClicks
    /\ clicks' = clicks + 1
    /\ processable' = processable

\* InitPage.choose_model_button_trigger
choose_model_button_trigger ==
    /\ UNCHANGED notUi
    /\ Event /\ frame = "InitPage"
    /\ \E chosen \in ModelFiles :
         /\ selected_model_path' = Str(chosen)
         /\ IF ~Truthy(Str(chosen))
              THEN UNCHANGED <<model_path_field, activate_model_button>>
              ELSE /\ model_path_field' = <<"normal", Str(Strip(chosen))>>
                   /\ activate_model_button' = "normal"
    /\ UNCHANGED <<frame, model_path, in_package_path, out_package_path,
                   in_package_path_field, out_package_path_field, process_button,
                   draw_spectrum_val, popups, process_log>>

\* InitPage.activate_model_button_trigger (a disabled button does not call it),
\* UI.switch_frame(MainPage), MainPage.__init__ and MainPage.show
activate_model_button_trigger ==
    /\ UNCHANGED notUi
    /\ Event /\ frame = "InitPage" /\ activate_model_button = "normal"
    /\ model_path' = selected_model_path
    /\ frame' = "MainPage"
    /\ in_package_path' = None /\ out_package_path' = None
    /\ in_package_path_field' = <<"disabled", InHint>>
    /\ out_package_path_field' = <<"disabled", OutHint>>
    /\ process_button' = "normal" /\ draw_spectrum_val' = 0
    /\ UNCHANGED <<selected_model_path, model_path_field, activate_model_button,
                   popups, process_log>>

\* InitPage.help_button_trigger, MainPage.help_button_trigger
help_button_trigger ==
    /\ UNCHANGED notUi
    /\ Event /\ frame \in {"InitPage", "MainPage"}
    /\ popups' = Append(popups, "help")
    /\ UNCHANGED <<frame, model_path, selected_model_path, model_path_field,
                   activate_model_button, in_package_path, out_package_path,
                   in_package_path_field, out_package_path_field, process_button,
                   draw_spectrum_val, process_log>>

\* the check button "Draw a file spectrum" is clicked
ToggleSpectrum ==
    /\ UNCHANGED notUi
    /\ Event /\ frame = "MainPage"
    /\ draw_spectrum_val' = 1 - draw_spectrum_val
    /\ UNCHANGED <<frame, model_path, selected_model_path, model_path_field,
                   activate_model_button, in_package_path, out_package_path,
                   in_package_path_field, out_package_path_field, process_button,
                   popups, process_log>>

\* MainPage.choose_in_package_button_trigger
choose_in_package_button_trigger ==
    /\ UNCHANGED notUi
    /\ Event /\ frame = "MainPage"
    /\ \E chosen \in Folders :
         /\ in_package_path' = Str(chosen)
         /\ IF ~Truthy(Str(chosen))
              THEN UNCHANGED <<in_package_path_field, process_button>>
              ELSE /\ in_package_path_field' = <<"normal", Str(chosen)>>
                   /\ process_button' =
                        IF Truthy(Str(chosen)) /\ Truthy(out_package_path)
                          THEN "normal" ELSE process_button
    /\ UNCHANGED <<frame, model_path, selected_model_path, model_path_field,
                   activate_model_button, out_package_path, out_package_path_field,
                   draw_spectrum_val, popups, process_log>>

\* MainPage.choose_out_package_button_trigger: the test before the early return
\* is on self.out_package_frame, a widget, which is never false
choose_out_package_button_trigger ==
    /\ UNCHANGED notUi
    /\ Event /\ frame = "MainPage"
    /\ \E chosen \in Folders :
         /\ out_package_path' = Str(chosen)
         /\ out_package_path_field' = <<"normal", Str(chosen)>>
         /\ process_button' =
              IF Truthy(in_package_path) /\ Truthy(Str(chosen))
                THEN "normal" ELSE process_button
    /\ UNCHANGED <<frame, model_path, selected_model_path, model_path_field,
                   activate_model_button, in_package_path, in_package_path_field,
                   draw_spectrum_val, popups, process_log>>

\* what the call run_process(in, out, model, bool(draw_spectrum_val)) does:
\* "TypeError" when the arguments do not bind, else the outcome of the processing
RunProcessCall(in, out, model) ==
    IF ~CallBinds(ProcessArgs, RunProcessParams) THEN "TypeError"
    ELSE IF Truthy(in) /\ Truthy(out) /\ Truthy(model) /\ processable THEN "returned"
    ELSE "raised"

\* MainPage.process_button_trigger: try run_process, showinfo; except showerror,
\* raise.  An entry of process_log is
\* <<in folder, out folder, model, outcome of the call, message box shown>>
process_button_trigger ==
    /\ UNCHANGED notUi
    /\ Event /\ frame = "MainPage" /\ process_button = "normal"
    /\ LET outcome == RunProcessCall(in_package_path, out_package_path, model_path)
           box == IF outcome = "returned" THEN "success" ELSE "failure"
       IN  /\ popups' = Append(popups, box)
           /\ process_log' = Append(process_log,
                 <<in_package_path, out_package_path, model_path, outcome, box>>)
    /\ UNCHANGED <<frame, model_path, selected_model_path, model_path_field,
                   activate_model_button, in_package_path, out_package_path,
                   in_package_path_field, out_package_path_field, process_button,
                   draw_spectrum_val>>

NextUi ==
    \/ choose_model_button_trigger \/ activate_model_button_trigger
    \/ help_button_trigger \/ ToggleSpectrum
    \/ choose_in_package_button_trigger \/ choose_out_package_button_trigger
    \/ process_button_trigger

----------------------------------------------------------------------------
\* Specifications
\* nothing was read or written, no option is set
Untouched(flag) ==
    /\ is_draw_spectrum = flag /\ is_sr_changed = flag
    /\ fs_dirs = {} /\ reads = {} /\ out_files = {} /\ pngs = {}

InitTrain ==
    /\ TrainNew("start", 0..MaxPlateau) /\ StftNew("idle") /\ FileNew("idle")
    /\ Untouched(FALSE) /\ FolderNew("idle") /\ GenNew("idle") /\ LossNew("idle")
    /\ UiNew("none")
InitStft ==
    /\ StftCall("stft") /\ TrainNew("idle", {0}) /\ FileNew("idle")
    /\ Untouched(FALSE) /\ FolderNew("idle") /\ GenNew("idle") /\ LossNew("idle")
    /\ UiNew("none")
InitFile ==
    /\ FileCall("load") /\ TrainNew("idle", {0}) /\ StftNew("idle")
    /\ FolderNew("idle") /\ GenNew("idle") /\ LossNew("idle") /\ UiNew("none")
InitFolder ==
    /\ FolderCall("start") /\ TrainNew("idle", {0}) /\ StftNew("idle")
    /\ FileNew("idle") /\ GenNew("idle") /\ LossNew("idle") /\ UiNew("none")
InitGen ==
    /\ GenCall("new") /\ TrainNew("idle", {0}) /\ StftNew("idle") /\ FileNew("idle")
    /\ Untouched(FALSE) /\ FolderNew("idle") /\ LossNew("idle") /\ UiNew("none")

InitLoss ==
    /\ LossCall("snr") /\ TrainNew("idle", {0}) /\ StftNew("idle") /\ FileNew("idle")
    /\ Untouched(FALSE) /\ FolderNew("idle") /\ GenNew("idle") /\ UiNew("none")

InitUi ==
    /\ UiStart("InitPage") /\ TrainNew("idle", {0}) /\ StftNew("idle")
    /\ FileNew("idle") /\ Untouched(FALSE) /\ FolderNew("idle") /\ GenNew("idle")
    /\ LossNew("idle")

SpecTrain == InitTrain /\ [][NextTrain]_vars
FairSpecTrain == SpecTrain /\ WF_vars(NextTrain)
SpecStft == InitStft /\ [][NextStft]_vars
SpecFile == InitFile /\ [][NextFile]_vars
SpecFolder == InitFolder /\ [][NextFolder]_vars
SpecGen == InitGen /\ [][NextGen]_vars
SpecLoss == InitLoss /\ [][NextLoss]_vars
SpecUi == InitUi /\ [][NextUi]_vars

----------------------------------------------------------------------------
\* Claims about train_model

\* C2: outside the instant between evaluation and checkpoint decision, the
\* checkpoint file holds the parameters of the (first) epoch with the lowest
\* validation loss evaluated so far (no file while there is none); the file is
\* written only at an epoch whose loss is strictly lower than every loss before
\* it; in particular the file retained when training has ended is the best one.
C2_CheckpointIsBest ==
    /\ [](t_pc # "ckpt" =>
            ckpt_file = (IF low_epoch = 0 THEN <<>> ELSE <<low_epoch>>))
    /\ [][ckpt_file' # ckpt_file =>
            /\ t_pc = "ckpt" /\ low_epoch = epoch
            /\ ckpt_file' = <<epoch>> /\ weights = epoch]_vars

\* C2 witness: training ended, the file holds an epoch that was followed by
\* epochs with a worse or equal loss, and it was overwritten at least once
C2_Witness ==
    /\ t_pc = "done" /\ ckpt_file = <<low_epoch>>
    /\ low_epoch > 1 /\ low_epoch < epoch

\* C3: after the stop decision of an epoch, training is halted by early
\* stopping exactly when the last strict improvement of the validation loss on
\* its best value is 10 epochs old; it is never halted before that, and no
\* baseline is needed (a run whose loss never improves stops after 10 epochs).
C3_EarlyStopExact ==
    /\ stop_training => t_pc \in {"loop", "done"}
    /\ (t_pc \in {"loop", "done"} /\ epoch >= 1) =>
          (stop_training <=> epoch - low_epoch >= EsPatience)
    /\ stop_training => epoch - low_epoch = EsPatience
    /\ (t_pc = "done" /\ epoch < max_epochs) => stop_training

\* C3 witness: training was stopped early, 10 epochs after an improvement
C3_Witness ==
    /\ t_pc = "done" /\ stop_training /\ epoch < max_epochs
    /\ low_epoch > 1 /\ epoch = low_epoch + EsPatience

\* C4 as stated: the learning rate changes only when the validation loss has
\* not improved (at all) for 3 consecutive epochs
C4_Original == [][lr' # lr => epoch - low_epoch >= RlPatience]_vars

\* C4 amended: the learning rate changes only in the LR decision, to
\* max(0.5 * lr, 1e-10), and it does so exactly when it is above 1e-10, the
\* validation loss has not improved by more than min_delta = 1e-4 on the
\* plateau's best value in each of the last 3 epochs and the last reduction is
\* at least 3 epochs old (so none happens in the cooldown epoch after a
\* reduction); it never increases and never drops below 1e-10.
C4_LrSchedule ==
    [][/\ lr' # lr =>
            /\ t_pc = "lr"
            /\ lr' = (IF Pow(2, lr[2] + 1) <= LrOverMinLr
                        THEN <<"pow", lr[2] + 1>> ELSE <<"min", 0>>)
            /\ pl_streak >= RlPatience
            /\ since_red >= RlPatience /\ since_red > RlCooldown
       /\ (t_pc = "lr" /\ pl_streak >= RlPatience /\ since_red >= RlPatience
             /\ lr # MinLr) => lr' # lr
       /\ LrLeq(lr', lr) /\ LrLeq(MinLr, lr')]_vars

\* C4 witness: the learning rate was halved down to the floor and then held
C4_Witness == lr = MinLr /\ since_red > RlPatience /\ pl_streak >= RlPatience

\* C5: the training loop terminates; it runs the steps of an epoch in the
\* order fit, evaluate, checkpoint decision, LR decision, (log,) stop decision,
\* never runs more than max_epochs epochs, begins no epoch after early
\* stopping has triggered, and ends only at max_epochs or by early stopping.
StepOrder ==
    {<<"start", "loop">>, <<"loop", "fit">>, <<"fit", "eval">>,
     <<"eval", "ckpt">>, <<"ckpt", "lr">>, <<"lr", "csv">>, <<"csv", "stop">>,
     <<"stop", "loop">>, <<"loop", "done">>}
C5_Terminates ==
    /\ <>(t_pc = "done")
    /\ [](epoch <= max_epochs)
    /\ [](t_pc = "done" => (epoch = max_epochs \/ stop_training))
    /\ [][/\ t_pc' # t_pc => <<t_pc, t_pc'>> \in StepOrder
          /\ epoch' # epoch => (epoch' = epoch + 1 /\ ~stop_training)]_vars

\* C5 witness: training ended after max_epochs epochs without early stopping
C5_Witness == t_pc = "done" /\ epoch = max_epochs /\ ~stop_training

----------------------------------------------------------------------------
\* Claims about the layer chain

\* number of frames that cover sample i (1-based) of a waveform of n samples
Cover(i, n, len, step) ==
    Cardinality({f \in 1..NumFrames(n, len, step) :
                    (f - 1) * step < i /\ i <= (f - 1) * step + len})

\* C9 as stated: with a mask of ones the chain reproduces the waveform sample
\* for sample over the region covered by full frames
C9_Original ==
    s_pc = "done" =>
        \A i \in 1..Len(out_wave) :
            Cover(i, Len(wave), blockLen, block_shift) > 0 => out_wave[i] = wave[i]

\* C9 amended: with a mask of ones, every sample of the output is the input
\* sample multiplied by the number of frames that cover it; the output equals
\* the input over the covered region when the hop equals the frame length.
C9_RoundTripGain ==
    s_pc = "done" =>
        /\ Len(out_wave) =
             OverlapAddLen(NumFrames(Len(wave), blockLen, block_shift),
                           blockLen, block_shift)
        /\ NumFrames(Len(wave), blockLen, block_shift) > 0 =>
             \A i \in 1..Len(out_wave) :
                out_wave[i] = Cover(i, Len(wave), blockLen, block_shift) * wave[i]
        /\ (block_shift = blockLen
              /\ NumFrames(Len(wave), blockLen, block_shift) > 0) =>
             out_wave = SubSeq(wave, 1, Len(out_wave))

\* C9 witness: frames of 4 samples with hop 1, a sample covered by 4 frames and
\* negative, zero and positive samples in the waveform
C9_Witness ==
    /\ s_pc = "done" /\ blockLen = 4 /\ block_shift = 1 /\ Len(wave) = MaxWave
    /\ wave[4] = -1 /\ out_wave[4] = -4 /\ wave[1] = 1 /\ wave[2] = 0

----------------------------------------------------------------------------
\* Claims about process_file

\* C1 as stated: 384 samples are trimmed from each end of the output of the
\* model and the waveform written has exactly N samples
C1_Original ==
    pf_pc = "done" =>
        /\ pred_len - speech_len = ZeroPad + ZeroPad
        /\ \E f \in out_files : f[1] = pf_out /\ f[2] = len_orig

\* C1 amended: for a waveform of N samples the model receives N + 768 samples
\* and returns N + 768 - (N mod 128); process_file keeps the N samples that
\* start at offset 384 of it (384 are dropped at the start, 384 - (N mod 128) at
\* the end), and the waveform it writes at 16 kHz has exactly N samples; with
\* is_sr_changed the file is then replaced by its 8 kHz version, which has
\* ceil(N / 2) samples.
C1_LengthPreserved ==
    /\ pf_pc \in {"trim", "write", "written", "spectrum", "done"} =>
          /\ in_len = len_orig + 768
          /\ pred_len = len_orig + 768 - (len_orig % 128)
    /\ pf_pc \in {"write", "written", "spectrum", "done"} =>
          /\ speech_len = len_orig
          /\ pred_len - TrimStart - speech_len = 384 - (len_orig % 128)
    /\ pf_pc = "written" => <<pf_out, len_orig, 16000>> \in out_files
    /\ pf_pc \in {"spectrum", "done"} =>
          IF is_sr_changed
            THEN <<pf_out, (len_orig + 1) \div 2, 8000>> \in out_files
            ELSE <<pf_out, len_orig, 16000>> \in out_files
    /\ Cardinality(out_files) <= 1

\* C1 witness: a waveform longer than a frame whose length is no multiple of
\* the hop was processed and written
C1_Witness ==
    /\ pf_pc = "done" /\ len_orig > BlockShiftDefault
    /\ len_orig % BlockShiftDefault = 1 /\ ~is_sr_changed
    /\ <<pf_out, len_orig, LoadRate>> \in out_files

----------------------------------------------------------------------------
\* Claims about run_process and process_folder

\* the input paths of the .wav files of the tree
WavInputs ==
    {Join(tree[i][1], WavName) : i \in {j \in 1..Len(tree) : WavFiles(tree[j][2]) # <<>>}}
\* where the claim puts the output of the .wav file of tree[i]: under
\* new_folder_name, at the sub-path the directory has under folder_name
ExpectedOut(i) ==
    Join(new_folder_name \o SubSeq(tree[i][1], Len(folder_name) + 1, Len(tree[i][1])),
         WavName)

\* C7 as stated: when process_folder is over, every .wav file of the folder
\* whose own processing did not fail has been processed
C7_FailureIsolated ==
    (r_pc \in {"done", "error"} /\ ckpt_ok) =>
        \A p \in WavInputs : p \in failed \/ p \in Range(processed)

\* C8: when the checkpoint cannot be loaded, run_process ends with the error
\* of load_weights and, at every moment, no directory has been created, no
\* file has been read, nothing has been written and no file has been listed.
C8_CheckpointFirst ==
    ~ckpt_ok =>
        /\ r_pc \in {"start", "load", "error"}
        /\ r_pc = "error" => r_error = "load_weights"
        /\ fs_dirs = {tree[i][1] : i \in 1..Len(tree)}
        /\ reads = {} /\ out_files = {} /\ pngs = {}
        /\ file_names = <<>> /\ pf_pc = "idle" /\ processed = <<>>

\* C8 witness: load_weights failed on a folder that holds .wav files
C8_Witness ==
    /\ r_pc = "error" /\ r_error = "load_weights" /\ ~ckpt_ok
    /\ Cardinality(WavInputs) >= 2

\* C10 as stated: after process_folder has processed a folder without any
\* failure, every .wav file was processed exactly once and the files written
\* are those at the same relative sub-path under new_folder_name
C10_StructurePreserved ==
    (r_pc = "done" /\ ckpt_ok) =>
        /\ Range(processed) = WavInputs
        /\ Len(processed) = Cardinality(WavInputs)
        /\ {f[1] : f \in out_files} =
             {ExpectedOut(i) : i \in {j \in 1..Len(tree) : WavFiles(tree[j][2]) # <<>>}}
        /\ \A f \in out_files : DirName(f[1]) \in fs_dirs

----------------------------------------------------------------------------
\* Claims about the audio generator

\* a pair that disagrees with the configured rate or is not single-channel
PairMismatch(f) ==
    f.fs_1 # g_fs \/ f.fs_2 # g_fs \/ f.ndim_1 # 1 \/ f.ndim_2 # 1

\* C6 as stated: the mismatch is detected by a check at construction, so no
\* audio generator is ever constructed on folders that hold a mismatching pair
C6_Original ==
    (\E i \in 1..Len(g_files) : PairMismatch(g_files[i])) =>
        g_pc \in {"new", "raised"} /\ yielded = <<>>

\* C6 amended: the mismatch is detected by a check of create_generator, when
\* the pair is read during iteration (constructing the audio generator checks
\* nothing and succeeds); it raises ValueError, which ends the generator: no
\* chunk of the mismatching pair, nor of any pair after it, is ever yielded,
\* and a pass that reaches the end has met no mismatching pair.
C6_CheckAtIteration ==
    /\ g_pc = "constructed" => g_error = "none"
    /\ g_error # "none" =>
          /\ g_error = "ValueError" /\ g_pc = "raised"
          /\ PairMismatch(g_files[g_file_names[g_file]])
    /\ g_pc = "raised" => g_error = "ValueError"
    /\ \A k \in 1..Len(yielded) :
          /\ ~PairMismatch(g_files[yielded[k][1]])
          /\ \E j \in 1..Len(g_file_names) :
                /\ g_file_names[j] = yielded[k][1] /\ j <= g_file
                /\ \A h \in 1..j : ~PairMismatch(g_files[g_file_names[h]])
    /\ g_pc = "exhausted" =>
          \A i \in 1..Len(g_files) : ~PairMismatch(g_files[i])

\* C6 witness: the generator raised at the second pair, whose clean file has
\* another rate, after it had yielded the chunks of the first pair
C6_Witness ==
    /\ g_pc = "raised" /\ g_error = "ValueError" /\ g_file = 2
    /\ g_files[g_file_names[2]].fs_2 # g_fs
    /\ g_files[g_file_names[2]].fs_1 = g_fs
    /\ Len(yielded) = 2

----------------------------------------------------------------------------
\* C11: snr_cost(estimate, reference) returns a finite value for an all-zero
\* reference and any estimate: the 1e-7 keeps the division from being by exactly
\* zero, and the result is neither infinite nor undefined.
C11_FiniteOnSilence ==
    /\ l_pc \in {"log", "loss", "done"} => snr[1] = "fin" /\ snr[3] # 0
    /\ (l_pc = "done" /\ \A i \in 1..Len(s_true) : s_true[i] = 0) => loss[1] = "fin"

----------------------------------------------------------------------------
\* C12: the processing page is reached only with a selected, non-empty model
\* path: whatever files are chosen and whichever dialogs are cancelled, the
\* button "Activate a model" is enabled only while selected_model_path is a
\* non-empty path, and model_path is not empty when MainPage is shown.
C12_ActivateNeedsModel ==
    /\ (frame = "InitPage" /\ activate_model_button = "normal")
          => Truthy(selected_model_path)
    /\ frame = "MainPage" => Truthy(model_path)

----------------------------------------------------------------------------
\* popups shown by process_button_trigger
RECURSIVE ProcessBoxes(_)
ProcessBoxes(q) ==
    IF q = <<>> THEN 0
    ELSE (IF Head(q) \in {"success", "failure"} THEN 1 ELSE 0) + ProcessBoxes(Tail(q))

\* C13: when Process is triggered with a valid model, input folder and output
\* folder whose files are all processable, run_process is executed and the
\* success popup is shown; the failure popup is shown only if the processing
\* itself raised an error; exactly one of the two popups is shown per trigger.
C13_PopupMatchesOutcome ==
    /\ \A i \in 1..Len(process_log) :
          LET e == process_log[i]
          IN  /\ (Truthy(e[1]) /\ Truthy(e[2]) /\ Truthy(e[3]) /\ processable)
                    => e[4] = "returned" /\ e[5] = "success"
              /\ e[5] = "failure" => e[4] = "raised"
    /\ ProcessBoxes(popups) = Len(process_log)

----------------------------------------------------------------------------
\* C14: a training chunk has N = floor(fs * duration / blockShift) * blockShift
\* samples, at least blockLen.  The forward pass cuts
\* floor((N - blockLen) / blockShift) + 1 frames from it and its overlap-add
\* output has (numFrames - 1) * blockShift + blockLen samples, which is N again:
\* the estimate and the reference given to the loss have the same length.
\* The frame length of the model is a multiple of its hop (512 = 4 * 128); the
\* first conjunct is the chunk of the model as it is built, the second one every
\* chain of layers of the model whose frame length is a multiple of its hop.
C14_ChunkLengthKept ==
    /\ LET N == LenInSamples(FsDefault, LenSamplesDefault, BlockShiftDefault)
           nf == NumFrames(N, BlockLenDefault, BlockShiftDefault)
       IN  /\ BlockLenDefault % BlockShiftDefault = 0
           /\ N >= BlockLenDefault
           /\ nf = (N - BlockLenDefault) \div BlockShiftDefault + 1
           /\ OverlapAddLen(nf, BlockLenDefault, BlockShiftDefault) = N
    /\ ( /\ s_pc = "done"
         /\ blockLen % block_shift = 0
         /\ Len(wave) >= blockLen
         /\ \E p \in 0..MaxWave : Len(wave) = LenInSamples(p, 1, block_shift) )
       => /\ Len(est_frames) = (Len(wave) - blockLen) \div block_shift + 1
          /\ Len(out_wave) = (Len(est_frames) - 1) * block_shift + blockLen
          /\ Len(out_wave) = Len(wave)

\* a chunk longer than one frame, cut with a hop of more than one sample, went
\* through the layers: several frames were cut and added up again
C14_Witness ==
    /\ s_pc = "done"
    /\ block_shift > 1 /\ blockLen % block_shift = 0
    /\ Len(wave) > blockLen /\ Len(wave) % block_shift = 0
    /\ Len(est_frames) > 1
    /\ Len(out_wave) = Len(wave)

----------------------------------------------------------------------------
\* the pairs yielded from the file at position k of file_names
YieldedOf(k) == {i \in 1..Len(yielded) : yielded[i][1] = g_file_names[k]}

\* C15: for every file pair that passes validation, one pass of create_generator
\* yields floor(len(noisy) / len_of_samples) pairs, pair idx being cut from both
\* files at [idx * len_of_samples, (idx + 1) * len_of_samples); both chunks of
\* every pair have exactly len_of_samples samples, also when the two files differ
\* in length; the chunks of a file do not overlap; the number of pairs yielded
\* over all files is total_samples.
C15_ChunksExact ==
    /\ \A i \in 1..Len(yielded) :
          /\ yielded[i][3] = len_of_samples
          /\ yielded[i][4] = len_of_samples
    /\ \A i, j \in 1..Len(yielded) :
          (i # j /\ yielded[i][1] = yielded[j][1]) => yielded[i][2] # yielded[j][2]
    /\ \A k \in 1..Len(g_file_names) :
          (k < g_file \/ g_pc = "exhausted")
             => /\ Cardinality(YieldedOf(k))
                     = g_files[g_file_names[k]].frames \div len_of_samples
                /\ {yielded[i][2] : i \in YieldedOf(k)}
                     = 0..(Cardinality(YieldedOf(k)) - 1)
    /\ g_pc = "exhausted" => Len(yielded) = total_samples

====
